---- MODULE Spec2Model ----
(***************************************************************************)
(* Model of src/pdf_extractor.py: the line scanner of                      *)
(* PDFContentExtractor.parse_questions_from_text, the image distribution   *)
(* of _associate_images_with_questions and the page loop of                *)
(* extract_all_content.                                                    *)
(*                                                                         *)
(* A line of text is a sequence of one-character strings, so that the      *)
(* regular expressions of the source are computed character by character.  *)
(* A Python Optional is a sequence of length 0 (None) or 1 (the value).    *)
(***************************************************************************)
EXTENDS Integers, Sequences, FiniteSets, TLC

VARIABLES
    lines,             \* parse_questions_from_text: the cleaned lines of the page
    page_images,       \* the page's image references, in discovery order
    page_num,          \* 0-based page index handed to parse_questions_from_text
    i,                 \* index of the outer while loop (0-based)
    current_question,  \* Optional text of the active question
    current_options,   \* options collected since the last reset
    current_answer,    \* Optional answer letter
    question_number,   \* Optional integer
    questions,         \* records finalized so far on this page
    pc,                \* position of the modelled routine
    qi,                \* _associate_images_with_questions: loop index
    all_questions,     \* extract_all_content: the document-wide list
    extraction_summary,\* extract_all_content: the summary dictionary
    doc_page,          \* extract_all_content: loop variable page_num
    provided           \* what the page content provider returned for each page visited

vars == <<lines, page_images, page_num, i, current_question, current_options,
          current_answer, question_number, questions, pc, qi, all_questions,
          extraction_summary, doc_page, provided>>

scanVars == <<i, current_question, current_options, current_answer,
              question_number, questions>>
docVars == <<all_questions, extraction_summary, doc_page, provided>>

(***************************************************************************)
(* Bounds of the model.                                                    *)
(***************************************************************************)
MaxLines == 4
MaxImages == 4
MaxQuestions == 3
MaxPages == 5

(***************************************************************************)
(* Characters and the raw lines a page is drawn from.                      *)
(***************************************************************************)
Whitespace == {" ", "\t"}
Digits == {"0", "1", "2", "3", "4", "5", "6", "7", "8", "9"}
Letters == {"A", "B", "C", "D"}

None == <<>>
Some(x) == <<x>>

RawPool ==
    { <<"1", ".", " ", " ", "Q">>,                       \* "1.  Q"     question start
      <<"1", "2", ".", "R">>,                            \* "12.R"      question start, no blank
      <<"[", "A", "]", " ", "x">>,                       \* "[A] x"     bracketed option
      <<"B", " ", "y">>,                                 \* "B y"       bare-letter option
      <<"A", "n", "s", ".", " ", "[", "B", "]">>,        \* "Ans. [B]"  answer line
      <<"A", "n", "s", " ", "C">>,                       \* "Ans C"     answer line, bare letter
      <<"w">>,                                           \* "w"         plain text
      <<"V", "e", "d", "a", "n", "t", "u">>,             \* "Vedantu"   boilerplate
      <<"?">>,                                           \* "?"         bare question mark
      <<"1", ".">>,                                      \* "1."        number without text
      <<" ">> }                                          \* " "         blank line

Boilerplate ==
    { <<"V", "e", "d", "a", "n", "t", "u">>,
      <<"L", "I", "V", "E", " ", "O", "N", "L", "I", "N", "E", " ",
        "T", "U", "T", "O", "R", "I", "N", "G">>,
      <<"w", "w", "w", ".", "v", "e", "d", "a", "n", "t", "u", ".", "c", "o", "m">> }

(***************************************************************************)
(* String helpers: str.strip, str.split/join, str.startswith, int.         *)
(***************************************************************************)
RECURSIVE LStrip(_)
LStrip(s) ==
    IF s = <<>> THEN <<>>
    ELSE IF Head(s) \in Whitespace THEN LStrip(Tail(s)) ELSE s

RECURSIVE RStrip(_)
RStrip(s) ==
    IF s = <<>> THEN <<>>
    ELSE IF s[Len(s)] \in Whitespace THEN RStrip(SubSeq(s, 1, Len(s) - 1)) ELSE s

Strip(s) == RStrip(LStrip(s))

RECURSIVE CollapseWs(_)
CollapseWs(s) ==
    IF s = <<>> THEN <<>>
    ELSE IF Head(s) \in Whitespace
         THEN IF Tail(s) = <<>> \/ Head(Tail(s)) \in Whitespace
              THEN CollapseWs(Tail(s))
              ELSE <<" ">> \o CollapseWs(Tail(s))
         ELSE <<Head(s)>> \o CollapseWs(Tail(s))

StartsWith(s, p) == Len(s) >= Len(p) /\ SubSeq(s, 1, Len(p)) = p

DigitValue(c) ==
    CASE c = "0" -> 0 [] c = "1" -> 1 [] c = "2" -> 2 [] c = "3" -> 3
      [] c = "4" -> 4 [] c = "5" -> 5 [] c = "6" -> 6 [] c = "7" -> 7
      [] c = "8" -> 8 [] c = "9" -> 9

RECURSIVE ToInt(_)
ToInt(ds) ==
    IF ds = <<>> THEN 0
    ELSE 10 * ToInt(SubSeq(ds, 1, Len(ds) - 1)) + DigitValue(ds[Len(ds)])

\* length of the leading run of digits: the greedy \d+ of both patterns
RECURSIVE DigitRun(_)
DigitRun(s) ==
    IF s = <<>> \/ Head(s) \notin Digits THEN 0 ELSE 1 + DigitRun(Tail(s))

\* clean_text_line: ' '.join(line.split()), then strip
clean_text_line(line) == Strip(CollapseWs(line))

RECURSIVE CleanLines(_)
CleanLines(raw) ==
    IF raw = <<>> THEN <<>>
    ELSE IF Strip(Head(raw)) = <<>> THEN CleanLines(Tail(raw))
         ELSE <<clean_text_line(Head(raw))>> \o CleanLines(Tail(raw))

(***************************************************************************)
(* The patterns of parse_questions_from_text.                              *)
(***************************************************************************)
Ans == <<"A", "n", "s">>

\* re.match(r'^(\d+)\.\s*(.+)', line): None, or Some of the two groups.
\* \s* gives one blank back when nothing else is left for (.+).
QuestionMatch(line) ==
    LET d == DigitRun(line) IN
    IF d >= 1 /\ Len(line) >= d + 2 /\ line[d + 1] = "."
    THEN LET rest == SubSeq(line, d + 2, Len(line))
             skipped == LStrip(rest)
         IN Some([number |-> SubSeq(line, 1, d),
                  text |-> IF skipped # <<>> THEN skipped ELSE <<rest[Len(rest)]>>])
    ELSE None

\* re.match(r'^\[?([A-D])\]?\s*(.+)?', line): None, or Some of the two groups
\* (group 2 is None when nothing follows the letter).
OptionMatch(line) ==
    LET p == IF Len(line) >= 2 /\ line[1] = "[" /\ line[2] \in Letters THEN 2 ELSE 1 IN
    IF Len(line) >= p /\ line[p] \in Letters
    THEN LET q == IF Len(line) >= p + 1 /\ line[p + 1] = "]" THEN p + 2 ELSE p + 1
             rest == LStrip(SubSeq(line, q, Len(line)))
         IN Some([letter |-> line[p],
                  text |-> IF rest = <<>> THEN None ELSE Some(rest)])
    ELSE None

\* f"[{option_letter}] {option_text}".strip(), with option_text = group(2) or ""
OptionEntry(m) ==
    Strip(<<"[", m.letter, "]", " ">> \o (IF m.text = None THEN <<>> ELSE m.text[1]))

\* the pattern r'Ans\.?\s*\[?([A-D])\]?' tried at position p (1-based)
AnswerAt(line, p) ==
    IF p + 2 <= Len(line) /\ SubSeq(line, p, p + 2) = Ans
    THEN LET a == IF p + 3 <= Len(line) /\ line[p + 3] = "." THEN p + 4 ELSE p + 3
             b == a + (Len(SubSeq(line, a, Len(line))) - Len(LStrip(SubSeq(line, a, Len(line)))))
             c == IF b <= Len(line) /\ line[b] = "[" THEN b + 1 ELSE b
         IN IF c <= Len(line) /\ line[c] \in Letters THEN Some(line[c]) ELSE None
    ELSE None

\* re.search(r'Ans\.?\s*\[?([A-D])\]?', line): the leftmost position that matches
AnswerSearch(line) ==
    LET hits == {p \in 1..Len(line) : AnswerAt(line, p) # None} IN
    IF hits = {} THEN None
    ELSE AnswerAt(line, CHOOSE p \in hits : \A r \in hits : p <= r)

\* re.match(r'^\[?[A-D]\]', next_line)
BracketedOption(next_line) ==
    \/ Len(next_line) >= 3 /\ next_line[1] = "[" /\ next_line[2] \in Letters
                           /\ next_line[3] = "]"
    \/ Len(next_line) >= 2 /\ next_line[1] \in Letters /\ next_line[2] = "]"

\* re.match(r'^\d+\.', next_line)
NumberDot(next_line) ==
    LET d == DigitRun(next_line) IN
    d >= 1 /\ Len(next_line) >= d + 1 /\ next_line[d + 1] = "."

\* variant: the loop does not stop at "<digits>."
ContinuationStops_NoNumber(next_line) ==
    \/ BracketedOption(next_line)
    \/ StartsWith(next_line, Ans)
    \/ next_line \in {<<"?", "?">>, <<"?">>}
    \/ next_line = <<>>

\* the break condition of the continuation loop
ContinuationStops(next_line) ==
    \/ BracketedOption(next_line)
    \/ StartsWith(next_line, Ans)
    \/ NumberDot(next_line)
    \/ next_line \in {<<"?", "?">>, <<"?">>}
    \/ next_line = <<>>

(***************************************************************************)
(* parse_questions_from_text: one iteration of the outer while loop as a   *)
(* function of the locals st = [i, current_question, current_options,      *)
(* current_answer, question_number, questions].                            *)
(***************************************************************************)
InitialLocals ==
    [i |-> 0, current_question |-> None, current_options |-> <<>>,
     current_answer |-> None, question_number |-> None, questions |-> <<>>]

\* the dictionary appended to questions
FinalizeRecord(st, pnum) ==
    [question_number |-> st.question_number[1],
     question |-> st.current_question[1],
     options |-> st.current_options,
     answer |-> st.current_answer,
     page |-> pnum + 1,
     images |-> "",
     option_images |-> <<>>]

\* append the active question, when there is one
FlushQuestion(st, pnum) ==
    IF st.current_question # None
    THEN [st EXCEPT !.questions = Append(@, FinalizeRecord(st, pnum))]
    ELSE st

\* variant: the options collected so far are kept
BeginQuestion_KeepOptions(st, m) ==
    [st EXCEPT !.question_number = Some(ToInt(m.number)),
               !.current_question = Some(Strip(m.text)),
               !.current_answer = None]

\* the four assignments that start a new question
BeginQuestion(st, m) ==
    [st EXCEPT !.question_number = Some(ToInt(m.number)),
               !.current_question = Some(Strip(m.text)),
               !.current_options = <<>>,
               !.current_answer = None]

\* the inner while loop: j is 0-based, text is current_question
RECURSIVE ConsumeContinuation(_, _, _)
ConsumeContinuation(ls, j, text) ==
    IF j < Len(ls) /\ ~ContinuationStops(Strip(ls[j + 1]))
    THEN ConsumeContinuation(ls, j + 1, text \o <<" ">> \o Strip(ls[j + 1]))
    ELSE [j |-> j, text |-> text]

SkippedLine(line) == line = <<>> \/ line \in Boilerplate

ScanStep(ls, pnum, st) ==
    LET line == Strip(ls[st.i + 1]) IN
    IF SkippedLine(line) THEN [st EXCEPT !.i = @ + 1]
    ELSE IF QuestionMatch(line) # None
    THEN LET begun == BeginQuestion(FlushQuestion(st, pnum), QuestionMatch(line)[1])
             c == ConsumeContinuation(ls, st.i + 1, begun.current_question[1])
         IN [begun EXCEPT !.current_question = Some(c.text), !.i = c.j]
    ELSE IF OptionMatch(line) # None
    THEN [st EXCEPT !.current_options = Append(@, OptionEntry(OptionMatch(line)[1])),
                    !.i = @ + 1]
    ELSE IF StartsWith(line, Ans)
    THEN [st EXCEPT !.current_answer =
                        IF AnswerSearch(line) # None THEN AnswerSearch(line) ELSE @,
                    !.i = @ + 1]
    ELSE [st EXCEPT !.i = @ + 1]

(***************************************************************************)
(* _associate_images_with_questions.                                       *)
(***************************************************************************)
Min(a, b) == IF a <= b THEN a ELSE b
Max(a, b) == IF a >= b THEN a ELSE b

\* variant: the quotient is not raised to 1
images_per_question_NoMax(n, m) == n \div m

images_per_question(n, m) == Max(1, n \div m)

\* variant: the slice of option images starts one position early
AssociateOne_SliceFromStart(question, idx, k, imgs) ==
    LET start_idx == idx * k
        end_idx == Min(start_idx + k, Len(imgs))
    IN IF start_idx < Len(imgs)
       THEN [question EXCEPT
                !.images = imgs[start_idx + 1],
                !.option_images = IF end_idx > start_idx + 1
                                  THEN SubSeq(imgs, start_idx + 1, end_idx)
                                  ELSE <<>>]
       ELSE question

\* the body of the for loop for the question at 0-based index idx
AssociateOne(question, idx, k, imgs) ==
    LET start_idx == idx * k
        end_idx == Min(start_idx + k, Len(imgs))
    IN IF start_idx < Len(imgs)
       THEN [question EXCEPT
                !.images = imgs[start_idx + 1],
                !.option_images = IF end_idx > start_idx + 1
                                  THEN SubSeq(imgs, start_idx + 2, end_idx)
                                  ELSE <<>>]
       ELSE question

AssociateAll(qs, imgs) ==
    IF qs = <<>> \/ imgs = <<>> THEN qs
    ELSE [idx \in 1..Len(qs) |->
             AssociateOne(qs[idx], idx - 1, images_per_question(Len(imgs), Len(qs)), imgs)]

\* the statements after the outer loop: the last question, then the images
FinishScan(st, pnum, imgs) == AssociateAll(FlushQuestion(st, pnum).questions, imgs)

\* the whole of parse_questions_from_text on cleaned lines
RECURSIVE ScanFrom(_, _, _)
ScanFrom(ls, pnum, st) ==
    IF st.i < Len(ls) THEN ScanFrom(ls, pnum, ScanStep(ls, pnum, st)) ELSE st

parse_questions_from_text(raw, imgs, pnum) ==
    FinishScan(ScanFrom(CleanLines(raw), pnum, InitialLocals), pnum, imgs)

(***************************************************************************)
(* Inputs.                                                                 *)
(***************************************************************************)
BoundedSeq(S, n) == UNION {[1..k -> S] : k \in 0..n}

ImageName(k) ==
    CASE k = 1 -> "img1" [] k = 2 -> "img2" [] k = 3 -> "img3" [] k = 4 -> "img4"
      [] k = 5 -> "img5" [] OTHER -> "img6"

\* the first n image references of a page
ImageList(n) == [k \in 1..n |-> ImageName(k)]

\* the image references that survive the size filter: any of the page's
\* images, in discovery order
RECURSIVE SubLists(_)
SubLists(s) ==
    IF s = <<>> THEN {<<>>}
    ELSE LET rest == SubLists(Tail(s)) IN rest \cup {<<Head(s)>> \o t : t \in rest}

\* m records as parse_questions_from_text leaves them before the images
BlankQuestions(m) ==
    [n \in 1..m |->
        FinalizeRecord([InitialLocals EXCEPT !.question_number = Some(n),
                                             !.current_question = Some(<<"Q">>)], 0)]

IdleScan ==
    /\ lines = <<>>
    /\ page_num = 0
    /\ i = 0
    /\ current_question = None
    /\ current_options = <<>>
    /\ current_answer = None
    /\ question_number = None

IdleDoc ==
    /\ all_questions = <<>>
    /\ extraction_summary = [total_pages |-> 0, total_questions |-> 0, total_images |-> 0,
                             pages_processed |-> 0, extraction_errors |-> <<>>]
    /\ doc_page = 0
    /\ provided = <<>>

(***************************************************************************)
(* Specification of one call of parse_questions_from_text.                 *)
(***************************************************************************)
Locals ==
    [i |-> i, current_question |-> current_question, current_options |-> current_options,
     current_answer |-> current_answer, question_number |-> question_number,
     questions |-> questions]

SetLocals(st) ==
    /\ i' = st.i
    /\ current_question' = st.current_question
    /\ current_options' = st.current_options
    /\ current_answer' = st.current_answer
    /\ question_number' = st.question_number
    /\ questions' = st.questions

Init ==
    /\ lines \in {CleanLines(raw) : raw \in BoundedSeq(RawPool, MaxLines)}
    /\ page_images \in {ImageList(0), ImageList(2)}
    /\ page_num = 0
    /\ i = 0
    /\ current_question = None
    /\ current_options = <<>>
    /\ current_answer = None
    /\ question_number = None
    /\ questions = <<>>
    /\ pc = "scan"
    /\ qi = 0
    /\ IdleDoc

\* one iteration of `while i < len(lines)`
ScanLine ==
    /\ pc = "scan"
    /\ i < Len(lines)
    /\ SetLocals(ScanStep(lines, page_num, Locals))
    /\ UNCHANGED <<lines, page_images, page_num, pc, qi, docVars>>

\* the loop has ended: add the last question, associate the images, return
Finish ==
    /\ pc = "scan"
    /\ i >= Len(lines)
    /\ questions' = FinishScan(Locals, page_num, page_images)
    /\ pc' = "done"
    /\ UNCHANGED <<lines, page_images, page_num, i, current_question, current_options,
                   current_answer, question_number, qi, docVars>>

Next == ScanLine \/ Finish

Spec == Init /\ [][Next]_vars

(***************************************************************************)
(* Specification of one call of _associate_images_with_questions.          *)
(***************************************************************************)
InitAssoc ==
    /\ IdleScan
    /\ IdleDoc
    /\ questions \in {BlankQuestions(m) : m \in 0..MaxQuestions}
    /\ page_images \in SubLists(ImageList(MaxImages))
    /\ qi = 0
    /\ pc = "assoc"

\* `if not questions or not page_images: return`
AssocReturn ==
    /\ pc = "assoc"
    /\ questions = <<>> \/ page_images = <<>>
    /\ pc' = "done"
    /\ UNCHANGED <<lines, page_images, page_num, scanVars, qi, docVars>>

\* one iteration of `for i, question in enumerate(questions)`
AssocStep ==
    /\ pc = "assoc"
    /\ questions # <<>> /\ page_images # <<>>
    /\ qi < Len(questions)
    /\ questions' = [questions EXCEPT ![qi + 1] =
            AssociateOne(@, qi, images_per_question(Len(page_images), Len(questions)),
                         page_images)]
    /\ qi' = qi + 1
    /\ UNCHANGED <<lines, page_images, page_num, i, current_question, current_options,
                   current_answer, question_number, pc, docVars>>

\* the for loop is exhausted
AssocEnd ==
    /\ pc = "assoc"
    /\ questions # <<>> /\ page_images # <<>>
    /\ qi = Len(questions)
    /\ pc' = "done"
    /\ UNCHANGED <<lines, page_images, page_num, scanVars, qi, docVars>>

NextAssoc == AssocReturn \/ AssocStep \/ AssocEnd

SpecAssoc == InitAssoc /\ [][NextAssoc]_vars

(***************************************************************************)
(* Specification of extract_all_content.  extract_page_content either      *)
(* returns the page's text and image list or raises; the provider's        *)
(* answer for the page is an input of the step.                            *)
(***************************************************************************)
DocTexts ==
    { <<<<"1", ".", " ", " ", "Q">>, <<"[", "A", "]", " ", "x">>>>,  \* one question
      <<<<"1", ".", " ", " ", "Q">>, <<"1", "2", ".", "R">>>>,       \* two questions
      <<<<"w">>>> }                                                  \* no question

DocImageLists == {ImageList(0), ImageList(3)}

Returned(text, imgs) == [ok |-> TRUE, text |-> text, images |-> imgs, error |-> ""]
Raised(e) == [ok |-> FALSE, text |-> <<>>, images |-> <<>>, error |-> e]

\* the exceptions that leave extract_page_content
PageErrors == {"page not readable"}

\* extract_page_content: the questions of the page
extract_page_content(text, imgs, pnum) == parse_questions_from_text(text, imgs, pnum)

\* variant: the page's records are put in front
ExtendQuestions_Prepend(all, page_questions) == page_questions \o all

\* all_questions.extend(page_questions)
ExtendQuestions(all, page_questions) == all \o page_questions

\* f"Error processing page {page_num + 1}: {str(e)}"
ErrorMessage(pnum, e) == [page |-> pnum + 1, message |-> e]

InitDoc ==
    /\ IdleScan
    /\ questions = <<>>
    /\ page_images = <<>>
    /\ qi = 0
    /\ all_questions = <<>>
    /\ \E n \in 0..MaxPages :
          extraction_summary = [total_pages |-> n, total_questions |-> 0,
                                total_images |-> 0, pages_processed |-> 0,
                                extraction_errors |-> <<>>]
    /\ doc_page = 0
    /\ provided = <<>>
    /\ pc = "pages"

\* variant: total_images counts the images the page's records hold
PageSucceeds_CountAssigned ==
    /\ pc = "pages"
    /\ doc_page < extraction_summary.total_pages
    /\ \E text \in DocTexts, imgs \in DocImageLists :
          LET page_questions == extract_page_content(text, imgs, doc_page) IN
          /\ all_questions' = ExtendQuestions(all_questions, page_questions)
          /\ extraction_summary' =
                [extraction_summary EXCEPT
                    !.total_images = @ + Cardinality(
                        {x \in 1..Len(imgs) :
                            \E n \in 1..Len(page_questions) :
                                \/ page_questions[n].images = imgs[x]
                                \/ \E y \in 1..Len(page_questions[n].option_images) :
                                      page_questions[n].option_images[y] = imgs[x]}),
                    !.pages_processed = @ + 1]
          /\ provided' = Append(provided, Returned(text, imgs))
    /\ doc_page' = doc_page + 1
    /\ UNCHANGED <<lines, page_images, page_num, scanVars, pc, qi>>

\* the try block runs to its end for page doc_page
PageSucceeds ==
    /\ pc = "pages"
    /\ doc_page < extraction_summary.total_pages
    /\ \E text \in DocTexts, imgs \in DocImageLists :
          /\ all_questions' = ExtendQuestions(all_questions,
                                  extract_page_content(text, imgs, doc_page))
          /\ extraction_summary' =
                [extraction_summary EXCEPT !.total_images = @ + Len(imgs),
                                           !.pages_processed = @ + 1]
          /\ provided' = Append(provided, Returned(text, imgs))
    /\ doc_page' = doc_page + 1
    /\ UNCHANGED <<lines, page_images, page_num, scanVars, pc, qi>>

\* variant: a failing page ends the loop
PageFails_Abort ==
    /\ pc = "pages"
    /\ doc_page < extraction_summary.total_pages
    /\ \E e \in PageErrors :
          /\ extraction_summary' =
                [extraction_summary EXCEPT
                    !.extraction_errors = Append(@, ErrorMessage(doc_page, e))]
          /\ provided' = Append(provided, Raised(e))
    /\ doc_page' = extraction_summary.total_pages
    /\ UNCHANGED <<lines, page_images, page_num, scanVars, pc, qi, all_questions>>

\* extract_page_content raises for page doc_page: the except block
PageFails ==
    /\ pc = "pages"
    /\ doc_page < extraction_summary.total_pages
    /\ \E e \in PageErrors :
          /\ extraction_summary' =
                [extraction_summary EXCEPT
                    !.extraction_errors = Append(@, ErrorMessage(doc_page, e))]
          /\ provided' = Append(provided, Raised(e))
    /\ doc_page' = doc_page + 1
    /\ UNCHANGED <<lines, page_images, page_num, scanVars, pc, qi, all_questions>>

\* the range is exhausted: total_questions is set and the pair returned
ReturnSummary ==
    /\ pc = "pages"
    /\ doc_page >= extraction_summary.total_pages
    /\ extraction_summary' =
          [extraction_summary EXCEPT !.total_questions = Len(all_questions)]
    /\ pc' = "done"
    /\ UNCHANGED <<lines, page_images, page_num, scanVars, qi, all_questions,
                   doc_page, provided>>

NextDoc == PageSucceeds \/ PageFails \/ ReturnSummary

SpecDoc == InitDoc /\ [][NextDoc]_vars

(***************************************************************************)
(* Vocabulary of the properties: the question-start lines of a page and    *)
(* the lines between one question-start line and the next.                 *)
(***************************************************************************)
IsQuestionStart(line) == QuestionMatch(line) # None
IsOptionLine(line) == OptionMatch(line) # None /\ ~StartsWith(line, Ans)
IsAnswerLine(line) == StartsWith(line, Ans) /\ AnswerSearch(line) # None

QuestionStarts(ls) == {k \in 1..Len(ls) : IsQuestionStart(ls[k])}

\* index of the n-th question-start line
NthStart(ls, n) ==
    CHOOSE k \in QuestionStarts(ls) :
        Cardinality({j \in QuestionStarts(ls) : j <= k}) = n

\* index of the last line of the n-th question
SpanEnd(ls, n) ==
    IF n < Cardinality(QuestionStarts(ls)) THEN NthStart(ls, n + 1) - 1 ELSE Len(ls)

Scanned(ls, imgs, pnum) == FinishScan(ScanFrom(ls, pnum, InitialLocals), pnum, imgs)

\* the letter of the last answer line among ls[a..b]
ExpectedAnswer(ls, a, b) ==
    LET hits == {j \in a..b : IsAnswerLine(ls[j])} IN
    IF hits = {} THEN None
    ELSE AnswerSearch(ls[CHOOSE j \in hits : \A r \in hits : r <= j])

\* one entry per option line among ls[a..b], in order
RECURSIVE ExpectedOptions(_, _, _)
ExpectedOptions(ls, a, b) ==
    IF a > b THEN <<>>
    ELSE (IF IsOptionLine(ls[a]) THEN <<OptionEntry(OptionMatch(ls[a])[1])>> ELSE <<>>)
         \o ExpectedOptions(ls, a + 1, b)

\* a line that ends the continuation according to the specification
StatedStop(line) ==
    \/ OptionMatch(line) # None
    \/ StartsWith(line, Ans)
    \/ NumberDot(line)
    \/ line \in {<<"?", "?">>, <<"?">>}

RECURSIVE StatedContinuation(_, _, _)
StatedContinuation(ls, j, text) ==
    IF j <= Len(ls) /\ ~StatedStop(ls[j])
    THEN StatedContinuation(ls, j + 1, text \o <<" ">> \o ls[j])
    ELSE text

ExpectedText(ls, k) ==
    StatedContinuation(ls, k + 1, Strip(QuestionMatch(ls[k])[1].text))

RECURSIVE WithoutBoilerplate(_)
WithoutBoilerplate(ls) ==
    IF ls = <<>> THEN <<>>
    ELSE (IF Head(ls) \in Boilerplate THEN <<>> ELSE <<Head(ls)>>)
         \o WithoutBoilerplate(Tail(ls))

Done == pc = "done"

(***************************************************************************)
(* Properties of parse_questions_from_text (specification Spec).           *)
(***************************************************************************)

\* C1: the page yields exactly one record per question-start line: the n-th
\* record carries the number and the leading text of the n-th question-start
\* line, and there are no other records.
C1_OneRecordPerQuestionStart ==
    Done =>
        /\ Len(questions) = Cardinality(QuestionStarts(lines))
        /\ \A n \in 1..Len(questions) :
              LET m == QuestionMatch(lines[NthStart(lines, n)])[1] IN
              /\ questions[n].question_number = ToInt(m.number)
              /\ StartsWith(questions[n].question, Strip(m.text))

\* two question-start lines in a row, the second one not swallowed
C1_Witness ==
    /\ Done
    /\ \E k \in 1..(Len(lines) - 1) : IsQuestionStart(lines[k]) /\ IsQuestionStart(lines[k + 1])
    /\ Len(questions) >= 2

\* C2: every record's answer is the letter of the last answer line between
\* its question-start line and the next one (or the end of the page), and is
\* absent when there is no such line.
C2_AnswerIsLastAnswerLine ==
    Done =>
        \A n \in 1..Len(questions) :
            questions[n].answer =
                ExpectedAnswer(lines, NthStart(lines, n) + 1, SpanEnd(lines, n))

\* C3: every record's options are, in order, one entry per option line of the
\* question's span; answer lines and other lines add none.
C3_OptionFidelity ==
    Done =>
        \A n \in 1..Len(questions) :
            questions[n].options =
                ExpectedOptions(lines, NthStart(lines, n) + 1, SpanEnd(lines, n))

\* C7: lines before the first question-start line leave no trace: a page
\* without a question-start line yields no record, and otherwise the records
\* are those of the page cut at its first question-start line.
C7_NoTraceBeforeFirstQuestion ==
    Done =>
        IF QuestionStarts(lines) = {} THEN questions = <<>>
        ELSE questions = Scanned(SubSeq(lines, NthStart(lines, 1), Len(lines)),
                                 page_images, page_num)

\* an option line precedes the first question-start line, and a record exists
C7_Witness ==
    /\ Done
    /\ questions # <<>>
    /\ \E k \in 1..Len(lines) :
          /\ OptionMatch(lines[k]) # None
          /\ \A j \in QuestionStarts(lines) : k < j

\* C9: a question's text is its start text followed by the lines up to the
\* first one that matches the option pattern of the option rule, the answer
\* pattern, the question-start pattern or a bare question mark.
C9_ContinuationStopsAtOptions ==
    Done =>
        \A n \in 1..Len(questions) :
            questions[n].question = ExpectedText(lines, NthStart(lines, n))

\* C10: boilerplate lines contribute to no record, wherever they stand.
C10_BoilerplateFiltered ==
    Done => questions = Scanned(WithoutBoilerplate(lines), page_images, page_num)

(***************************************************************************)
(* Properties of _associate_images_with_questions (specification           *)
(* SpecAssoc).                                                             *)
(***************************************************************************)
RECURSIVE SumSeq(_)
SumSeq(s) == IF s = <<>> THEN 0 ELSE Head(s) + SumSeq(Tail(s))

\* the images a record holds: its main image, then its option images
ImagesOf(q) == (IF q.images = "" THEN <<>> ELSE <<q.images>>) \o q.option_images

Assigned == SumSeq([n \in 1..Len(questions) |-> Len(ImagesOf(questions[n]))])

\* positions of the page image list that no record holds
Unassigned ==
    {p \in 1..Len(page_images) :
        \A n \in 1..Len(questions) :
            \A x \in 1..Len(ImagesOf(questions[n])) :
                ImagesOf(questions[n])[x] # page_images[p]}

\* C4 as stated: assigned + dropped = n with dropped = n - m*floor(n/m) < m,
\* for all m >= 1 and n >= 1.
C4_ConservationAsStated ==
    LET m == Len(questions)
        n == Len(page_images)
    IN (Done /\ m >= 1 /\ n >= 1) =>
          /\ Assigned + (n - m * (n \div m)) = n
          /\ n - m * (n \div m) < m

\* C4 amended: assigned + dropped = n and dropped < m, where dropped is
\* n - m*floor(n/m) when n >= m and 0 when n < m (then every image is
\* assigned); dropped is the number of images no question holds.
C4_Conservation ==
    LET m == Len(questions)
        n == Len(page_images)
        dropped == IF n >= m THEN n - m * (n \div m) ELSE 0
    IN (Done /\ m >= 1 /\ n >= 1) =>
          /\ Assigned + dropped = n
          /\ dropped < m
          /\ Cardinality(Unassigned) = dropped

\* fewer images than questions, and all of them assigned
C4_Witness ==
    /\ Done
    /\ Len(page_images) >= 1
    /\ Len(page_images) < Len(questions)
    /\ Assigned = Len(page_images)

\* C5: with k = max(1, floor(n/m)), question i holds the slice
\* [i*k, min(i*k+k, n)): its first image as images, the rest as option_images;
\* a question with i*k >= n holds none; the positions from m*k on are held by
\* no question, no position is held twice.
C5_SliceState ==
    LET m == Len(questions)
        n == Len(page_images)
        k == IF (n \div m) >= 1 THEN n \div m ELSE 1
    IN (Done /\ m >= 1 /\ n >= 1) =>
          /\ \A idx \in 0..(m - 1) :
                LET lo == idx * k
                    hi == IF lo + k <= n THEN lo + k ELSE n
                IN IF lo < n
                   THEN /\ questions[idx + 1].images = page_images[lo + 1]
                        /\ questions[idx + 1].option_images
                              = [x \in 1..(hi - lo - 1) |-> page_images[lo + 1 + x]]
                   ELSE /\ questions[idx + 1].images = ""
                        /\ questions[idx + 1].option_images = <<>>
          /\ \A p \in 1..n : p > m * k => p \in Unassigned
          /\ Assigned + Cardinality(Unassigned) = n

\* C5, with the image list left as it was by every step
C5_SliceOfImages == [](C5_SliceState) /\ [][page_images' = page_images]_vars

\* two questions, three images: one each, the third held by no question
C5_Witness ==
    /\ Done
    /\ Len(questions) = 2 /\ Len(page_images) = 3
    /\ questions[1].images = page_images[1]
    /\ questions[2].images = page_images[2]
    /\ Unassigned = {3}

(***************************************************************************)
(* Properties of extract_all_content (specification SpecDoc).              *)
(***************************************************************************)
FailedPages == {p \in 1..Len(provided) : ~provided[p].ok}
GoodPages == {p \in 1..Len(provided) : provided[p].ok}

\* the records of the successful pages among the first n, page after page
RECURSIVE RecordsUpTo(_)
RecordsUpTo(n) ==
    IF n = 0 THEN <<>>
    ELSE RecordsUpTo(n - 1) \o
         (IF provided[n].ok
          THEN Scanned(CleanLines(provided[n].text), provided[n].images, n - 1)
          ELSE <<>>)

ImagesUpTo(n) == SumSeq([p \in 1..n |-> Len(provided[p].images)])

RecordsOfPage(p) == SelectSeq(all_questions, LAMBDA r : r.page = p)

\* C6: a failing page adds exactly one error entry, which names it, and
\* nothing else; the loop goes on to the next page and ends only after the
\* last one; the records of every page that succeeded are in the list.
C6_FailureIsolation ==
    LET errors == extraction_summary.extraction_errors IN
    /\ doc_page = Len(provided)
    /\ Len(errors) = Cardinality(FailedPages)
    /\ \A p \in FailedPages :
          Cardinality({x \in 1..Len(errors) : errors[x].page = p}) = 1
    /\ all_questions = RecordsUpTo(Len(provided))
    /\ extraction_summary.total_images = ImagesUpTo(Len(provided))
    /\ extraction_summary.pages_processed = Cardinality(GoodPages)
    /\ Done => Len(provided) = extraction_summary.total_pages
    /\ Done \/ ENABLED ReturnSummary \/ ENABLED PageFails \/ ENABLED PageSucceeds

\* five pages, one of them failing, and the loop ran on after it
C6_Witness ==
    /\ Done
    /\ extraction_summary.total_pages = 5
    /\ Cardinality(FailedPages) = 1
    /\ 5 \notin FailedPages
    /\ extraction_summary.pages_processed = 4
    /\ Len(extraction_summary.extraction_errors) = 1
    /\ \A p \in GoodPages : RecordsOfPage(p) # <<>>

\* C8: the document list is in ascending page order and, within a page, in
\* the order of the question-start lines; a record's page is the 1-based
\* index of the page it was scanned from; no record belongs to a page not
\* yet visited, and a visited page's records are complete, images included.
C8_DocumentOrder ==
    /\ \A a, b \in 1..Len(all_questions) :
          a < b => all_questions[a].page <= all_questions[b].page
    /\ \A a \in 1..Len(all_questions) : all_questions[a].page \in GoodPages
    /\ doc_page = Len(provided)
    /\ \A p \in GoodPages :
          LET ls == CleanLines(provided[p].text)
              rs == RecordsOfPage(p)
          IN /\ Len(rs) = Cardinality(QuestionStarts(ls))
             /\ \A n \in 1..Len(rs) :
                   LET m == QuestionMatch(ls[NthStart(ls, n)])[1] IN
                   /\ rs[n].question_number = ToInt(m.number)
                   /\ StartsWith(rs[n].question, Strip(m.text))
             /\ rs = AssociateAll([n \in 1..Len(rs) |->
                                      [rs[n] EXCEPT !.images = "", !.option_images = <<>>]],
                                  provided[p].images)

\* records of two pages after a failed one, one page holding two questions
C8_Witness ==
    /\ Done
    /\ FailedPages # {}
    /\ \E a \in 1..(Len(all_questions) - 1) :
          all_questions[a].page < all_questions[a + 1].page
    /\ \E a \in 1..(Len(all_questions) - 1) :
          /\ all_questions[a].page = all_questions[a + 1].page
          /\ all_questions[a].question_number # all_questions[a + 1].question_number

\* the pages the error entries name, in the order of the entries
ErrorPages ==
    {extraction_summary.extraction_errors[x].page :
        x \in 1..Len(extraction_summary.extraction_errors)}

\* the summary's counters after the pages attempted so far
C11_Accounting ==
    LET s == extraction_summary IN
    /\ s.pages_processed + Len(s.extraction_errors) = doc_page
    /\ doc_page <= s.total_pages
    /\ s.pages_processed = Cardinality(GoodPages)
    /\ Len(s.extraction_errors) = Cardinality(FailedPages)
    /\ ErrorPages = FailedPages
    /\ GoodPages \cap ErrorPages = {}
    /\ GoodPages \cup ErrorPages = 1..doc_page
    /\ s.total_images = ImagesUpTo(doc_page)
    /\ ~Done => s.total_questions = 0
    /\ Done => /\ s.pages_processed + Len(s.extraction_errors) = s.total_pages
               /\ s.total_questions = Len(all_questions)

\* no step lowers a counter, removes an error entry or changes total_pages
C11_Monotone ==
    LET s == extraction_summary
        t == extraction_summary'
    IN /\ t.pages_processed >= s.pages_processed
       /\ t.total_images >= s.total_images
       /\ t.total_questions >= s.total_questions
       /\ t.total_pages = s.total_pages
       /\ Len(t.extraction_errors) >= Len(s.extraction_errors)
       /\ SubSeq(t.extraction_errors, 1, Len(s.extraction_errors)) = s.extraction_errors

\* C11: after each page attempted, pages_processed + len(extraction_errors)
\* is the number of pages attempted, each page being counted in exactly one of
\* the two; the counters never decrease; on return the sum is total_pages,
\* total_questions is the length of the returned list and total_images the
\* sum of the image counts of the pages that succeeded.
C11_SummaryAccounting == [](C11_Accounting) /\ [][C11_Monotone]_vars

\* a finished run with failed and successful pages, in which a page's images
\* outnumber those its records hold
C11_Witness ==
    /\ Done
    /\ FailedPages # {} /\ GoodPages # {}
    /\ extraction_summary.total_questions >= 2
    /\ extraction_summary.total_images
          > SumSeq([n \in 1..Len(all_questions) |-> Len(ImagesOf(all_questions[n]))])

====
